---------------------------- MODULE Spec2Model ----------------------------
(***************************************************************************)
(* Model of src/sentry/runner/commands/devservices.py: the `devservices`   *)
(* command group (attach, up, down, rm) driving a container engine.        *)
(*                                                                         *)
(* The engine (docker) is the only persistent state: containers, volumes,  *)
(* networks and locally present images, all keyed by name.  Names are      *)
(* sequences of one-character strings, so that project + "_" + name,       *)
(* str.startswith, slicing, str.split(",") and `"/" in mount` are computed *)
(* as the code computes them.                                              *)
(*                                                                         *)
(* Engine calls never fail, except for the NotFound answers of the get     *)
(* calls that the code itself handles.  Every engine call a command makes  *)
(* is appended to `calls`, and `pre` holds the engine as it was when the   *)
(* command started, so that what a command did can be stated.              *)
(*                                                                         *)
(* up, down and rm run to their end in one step.  attach is a process: it  *)
(* reconciles its service in one step, then installs its handlers one by   *)
(* one and streams the logs, and a signal may reach it between any two of  *)
(* these.  While attach holds the terminal no other command is run.        *)
(*                                                                         *)
(* Of the options of a service, the environment (its interpolation, lines  *)
(* 183-184, and the snuba override, lines 179-181) and the restart policy  *)
(* are left out: no engine call but the content of create depends on them. *)
(***************************************************************************)
EXTENDS Integers, Sequences, FiniteSets, TLC

VARIABLES
    projects,    \* the values of --project in use on this host
    settings,    \* settings.SENTRY_DEVSERVICES: sequence of (name, options) items
    containers,  \* engine: container name -> [running, image, ports, volumes, network]
    volumes,     \* engine: set of volume names
    networks,    \* engine: set of network names
    images,      \* engine: set of image names present locally
    proc,        \* the foreground `attach` process: its position and container handle
    cmd,         \* the step taken last and its arguments
    pre,         \* the engine when that step started
    calls,       \* the engine calls that step made, in order
    repeated     \* that step is a command identical to the one just before it

vars == <<projects, settings, containers, volumes, networks, images, proc, cmd, pre, calls, repeated>>

---------------------------------------------------------------------------
(* Strings *)

Range(s) == {s[i] : i \in DOMAIN s}

\* str.startswith
startswith(s, prefix) ==
    /\ Len(prefix) <= Len(s)
    /\ SubSeq(s, 1, Len(prefix)) = prefix

\* s[len(prefix):]
slice_from(s, n) == SubSeq(s, n + 1, Len(s))

\* `ch in s` for a one-character ch
contains(s, ch) == \E i \in DOMAIN s : s[i] = ch

\* str.split(sep) for a one-character sep: the list of the pieces between
\* the separators (an empty string splits to one empty piece).
RECURSIVE split(_, _)
split(s, sep) ==
    IF ~contains(s, sep)
    THEN <<s>>
    ELSE LET i == CHOOSE k \in DOMAIN s :
                      s[k] = sep /\ \A j \in 1..(k - 1) : s[j] /= sep
         IN  <<SubSeq(s, 1, i - 1)>> \o split(SubSeq(s, i + 1, Len(s)), sep)

\* A fixed enumeration of a finite set, standing for the order in which the
\* engine lists containers and volumes and a dict lists its keys.
RECURSIVE listing(_)
listing(S) ==
    IF S = {} THEN <<>>
    ELSE LET x == CHOOSE y \in S : TRUE
         IN  <<x>> \o listing(S \ {x})

---------------------------------------------------------------------------
(* The configuration the commands are run against *)

sentry == <<"s">>
sentry_test == <<"s", "_", "t">>

postgres == <<"p">>
reverse_proxy == <<"r">>
unknown_service == <<"x">>

loopback == "127.0.0.1"

\* A registry item.  `only_if` is the outcome of the item's predicate (TRUE
\* also when the item has none); `pull` and `with_devserver` are FALSE when
\* the item does not give them.  A port is <<"bare", p>> when given as a
\* number and <<"pair", interface, p>> when given as a tuple.
postgres_item(pull, only_if) ==
    [name |-> postgres,
     image |-> "postgres:9.6",
     pull |-> pull,
     with_devserver |-> FALSE,
     only_if |-> only_if,
     ports |-> [p \in {5432} |-> <<"bare", 5432>>],
     volumes |-> (postgres :> <<"/", "d">>) @@ (<<"/", "e">> :> <<"/", "e">>)]

reverse_proxy_item(pull, only_if) ==
    [name |-> reverse_proxy,
     image |-> "nginx:1.16",
     pull |-> pull,
     with_devserver |-> TRUE,
     only_if |-> only_if,
     ports |-> [p \in {80} |-> <<"pair", "0.0.0.0", 8000>>],
     volumes |-> <<>>]

\* The port maps an item may give: none, a bare port, a pair, one of each
PortMaps ==
    {<<>>,
     5432 :> <<"bare", 5432>>,
     5432 :> <<"pair", "0.0.0.0", 5432>>,
     (5432 :> <<"bare", 5432>>) @@ (9000 :> <<"pair", "0.0.0.0", 9001>>)}

\* An item that gives no `ports` at all
portless_item ==
    [name |-> reverse_proxy,
     image |-> "nginx:1.16",
     pull |-> FALSE,
     with_devserver |-> FALSE,
     only_if |-> TRUE,
     volumes |-> <<>>]

\* The registries that differ in the ports their items give
PortRegistries ==
    {<<[postgres_item(FALSE, TRUE) EXCEPT !.ports = given], portless_item>> :
        given \in PortMaps}

\* The registries of a checkout before and after it moves postgres to a
\* newer image, with and without a forced pull
UpgradeRegistries ==
    {<<[postgres_item(pull, TRUE) EXCEPT !.image = image],
       reverse_proxy_item(FALSE, TRUE)>> :
        pull \in BOOLEAN, image \in {"postgres:9.6", "postgres:10"}}

\* Every registry of the two items: each with and without a forced pull,
\* each enabled or disabled by its predicate.
Registries ==
    {<<postgres_item(p1, o1), reverse_proxy_item(p2, o2)>> :
        p1 \in BOOLEAN, o1 \in BOOLEAN, p2 \in BOOLEAN, o2 \in BOOLEAN}

ServiceNames == {postgres, reverse_proxy, unknown_service}

\* The values of the repeatable --exclude option
ExcludeInputs ==
    {<<>>, <<postgres>>, <<reverse_proxy>>, <<postgres \o <<",">> \o reverse_proxy>>}

\* The values of the variadic service argument of down and rm
ServiceArgs ==
    {<<>>, <<postgres>>, <<reverse_proxy, unknown_service>>}

---------------------------------------------------------------------------
(* The engine, as the docker client calls the code uses act on it *)

Engine ==
    [containers |-> containers, volumes |-> volumes, networks |-> networks,
     images |-> images, calls |-> <<>>]

Call(e, op, name) == [e EXCEPT !.calls = Append(@, [op |-> op, name |-> name])]

ping(e) == Call(e, "ping", <<>>)

images_pull(e, image) ==
    [Call(e, "images.pull", image) EXCEPT !.images = @ \cup {image}]

images_get(e, image) == Call(e, "images.get", image)

containers_get(e, name) == Call(e, "containers.get", name)

containers_list(e) == Call(e, "containers.list", <<>>)

volumes_list(e) == Call(e, "volumes.list", <<>>)

containers_create(e, options) ==
    LET made == [running |-> FALSE,
                 image |-> options.image,
                 ports |-> options.ports,
                 volumes |-> options.volumes,
                 network |-> options.network]
        e1 == [e EXCEPT !.calls = Append(@, [op |-> "containers.create",
                                             name |-> options.name,
                                             options |-> options])]
    IN  [e1 EXCEPT !.containers =
            [n \in DOMAIN @ \cup {options.name} |->
                IF n = options.name THEN made ELSE @[n]]]

container_start(e, name) ==
    LET e1 == Call(e, "start", name)
    IN  IF name \in DOMAIN e1.containers
        THEN [e1 EXCEPT !.containers[name].running = TRUE]
        ELSE e1

container_stop(e, name) ==
    LET e1 == Call(e, "stop", name)
    IN  IF name \in DOMAIN e1.containers
        THEN [e1 EXCEPT !.containers[name].running = FALSE]
        ELSE e1

container_remove(e, name) ==
    LET e1 == Call(e, "remove", name)
    IN  [e1 EXCEPT !.containers = [n \in DOMAIN @ \ {name} |-> @[n]]]

volume_remove(e, name) ==
    [Call(e, "volume.remove", name) EXCEPT !.volumes = @ \ {name}]

network_remove(e, name) ==
    [Call(e, "network.remove", name) EXCEPT !.networks = @ \ {name}]

get_docker_client(e) == ping(e)

\* get_or_create that creates also what the get found
get_or_create_always(e, thing, name) ==
    LET e1 == Call(e, IF thing = "network" THEN "networks.get" ELSE "volumes.get", name)
    IN  IF thing = "network"
        THEN [Call(e1, "networks.create", name) EXCEPT !.networks = @ \cup {name}]
        ELSE [Call(e1, "volumes.create", name) EXCEPT !.volumes = @ \cup {name}]

\* get_or_create(client, thing, name) for thing "network" or "volume"
get_or_create(e, thing, name) ==
    LET e1 == Call(e, IF thing = "network" THEN "networks.get" ELSE "volumes.get", name)
        have == IF thing = "network" THEN e.networks ELSE e.volumes
    IN  IF name \in have
        THEN e1
        ELSE IF thing = "network"
             THEN [Call(e1, "networks.create", name) EXCEPT !.networks = @ \cup {name}]
             ELSE [Call(e1, "volumes.create", name) EXCEPT !.volumes = @ \cup {name}]

---------------------------------------------------------------------------
(* Option resolution *)

\* ensure_interface binding a bare port on every interface
ensure_interface_any(ports) ==
    [k \in DOMAIN ports |->
        IF ports[k][1] /= "pair" THEN <<"pair", "0.0.0.0", ports[k][2]>> ELSE ports[k]]

ensure_interface(ports) ==
    [k \in DOMAIN ports |->
        IF ports[k][1] /= "pair" THEN <<"pair", loopback, ports[k][2]>> ELSE ports[k]]

\* dict.setdefault, as far as the value it leaves under the key goes
setdefault(options, key, default) ==
    IF key \in DOMAIN options THEN options[key] ELSE default

\* The options of every item, whatever its `only_if` predicate says
_prepare_containers_all(project) ==
    LET item(name) == settings[CHOOSE i \in DOMAIN settings : settings[i].name = name]
    IN  [name \in {settings[i].name : i \in DOMAIN settings} |->
            [image |-> item(name).image,
             pull |-> item(name).pull,
             with_devserver |-> item(name).with_devserver,
             volumes |-> item(name).volumes,
             network |-> project,
             detach |-> TRUE,
             name |-> project \o <<"_">> \o name,
             ports |-> ensure_interface(setdefault(item(name), "ports", <<>>))]]

\* The dict _prepare_containers returns: enabled service name -> options
_prepare_containers(project) ==
    LET enabled == {i \in DOMAIN settings : settings[i].only_if}
        item(name) == settings[CHOOSE i \in enabled : settings[i].name = name]
    IN  [name \in {settings[i].name : i \in enabled} |->
            [image |-> item(name).image,
             pull |-> item(name).pull,
             with_devserver |-> item(name).with_devserver,
             volumes |-> item(name).volumes,
             network |-> project,
             detach |-> TRUE,
             name |-> project \o <<"_">> \o name,
             ports |-> ensure_interface(setdefault(item(name), "ports", <<>>))]]

---------------------------------------------------------------------------
(* The reconciler *)

\* Lines 200-203: the mounts to materialise, in the order keys() lists them
\* (keys() is the list of the keys as they were when the loop began)
named_mounts(options) ==
    listing({m \in DOMAIN options.volumes : ~contains(m, "/")})

RECURSIVE materialize(_, _, _)
materialize(e, mounts, project) ==
    IF mounts = <<>> THEN e
    ELSE materialize(get_or_create(e, "volume", project \o <<"_">> \o Head(mounts)),
                     Tail(mounts), project)

\* The mounts passed on under the keys the item gives
namespaced_unchanged(vols, project) == vols

\* options["volumes"] after the loop of lines 200-203
namespaced(vols, project) ==
    LET key(m) == IF contains(m, "/") THEN m ELSE project \o <<"_">> \o m
    IN  [k \in {key(m) : m \in DOMAIN vols} |->
            vols[CHOOSE m \in DOMAIN vols : key(m) = k]]

\* The freshness check made in fast mode too
freshen_regardless(e, options, fast) ==
    IF options.pull THEN images_pull(e, options.image)
    ELSE IF options.image \in e.images THEN images_get(e, options.image)
    ELSE images_pull(images_get(e, options.image), options.image)

\* Lines 186-198
freshen(e, options, fast) ==
    IF fast THEN e
    ELSE IF options.pull THEN images_pull(e, options.image)
    ELSE IF options.image \in e.images THEN images_get(e, options.image)
    ELSE images_pull(images_get(e, options.image), options.image)

\* The reuse decision without the override of lines 228-229
should_reuse_container_pull_only(pull, with_devserver, fast) == ~pull

\* Lines 224-229
should_reuse_container(pull, with_devserver, fast) ==
    IF with_devserver \/ fast THEN TRUE ELSE ~pull

\* The deferral with always_start ignored
defer_start_always(with_devserver, always_start) == with_devserver

\* Lines 232 and 261: a service of the devserver is left for attach to start
defer_start(with_devserver, always_start) == with_devserver /\ ~always_start

\* _start_service: the engine after the call; the container it returns is
\* the one named containers[name].name.
_start_service(e, name, prepared, project, fast, always_start) ==
    LET options == prepared[name]
        pull == options.pull
        with_devserver == options.with_devserver
        e1 == freshen(e, options, fast)
        e2 == materialize(e1, named_mounts(options), project)
        create_options ==
            [image |-> options.image,
             volumes |-> namespaced(options.volumes, project),
             network |-> options.network,
             detach |-> options.detach,
             name |-> options.name,
             ports |-> options.ports]
        e3 == containers_get(e2, options.name)
        found == options.name \in DOMAIN e3.containers
        reuse == found /\ should_reuse_container(pull, with_devserver, fast)
        e4 == IF found /\ ~reuse
              THEN container_remove(container_stop(e3, options.name), options.name)
              ELSE e3
        e5 == IF reuse THEN e4 ELSE containers_create(e4, create_options)
    IN  IF defer_start(with_devserver, always_start)
        THEN e5
        ELSE container_start(e5, options.name)

---------------------------------------------------------------------------
(* Commands *)

Snapshot ==
    [containers |-> containers, volumes |-> volumes, networks |-> networks,
     images |-> images]

\* A step ends: the engine is as the step left it, and the step is recorded.
Done(e, c) ==
    /\ containers' = e.containers
    /\ volumes' = e.volumes
    /\ networks' = e.networks
    /\ images' = e.images
    /\ calls' = e.calls
    /\ pre' = Snapshot
    /\ cmd' = c
    /\ repeated' = (c = cmd)
    /\ UNCHANGED <<projects, settings>>

\* The option values taken as names, uncut
exclude_set_unsplit(exclude) == Range(exclude)

\* Line 110
exclude_set(exclude) ==
    UNION {Range(split(exclude[i], ",")) : i \in DOMAIN exclude}

\* Lines 131-138, from item i on
RECURSIVE up_loop(_, _, _, _, _, _)
up_loop(e, i, excluded, prepared, project, fast) ==
    IF i > Len(settings) THEN e
    ELSE LET name == settings[i].name
         IN  IF name \in excluded \/ name \notin DOMAIN prepared
             THEN up_loop(e, i + 1, excluded, prepared, project, fast)
             ELSE up_loop(_start_service(e, name, prepared, project, fast, FALSE),
                          i + 1, excluded, prepared, project, fast)

up(project, exclude, fast) ==
    /\ proc.pc = "idle"
    /\ LET e1 == get_or_create(get_docker_client(Engine), "network", project)
           prepared == _prepare_containers(project)
       IN  Done(up_loop(e1, 1, exclude_set(exclude), prepared, project, fast),
                [op |-> "up", project |-> project, exclude |-> exclude, fast |-> fast])
    /\ UNCHANGED proc

\* The selection with the service arguments ignored
matching_prefix(names, project, service) ==
    {n \in names : startswith(n, project \o <<"_">>)}

\* The containers (or volumes) down and rm act on: lines 284-285, 308-309, 315-316
matching(names, project, service) ==
    LET prefix == project \o <<"_">>
    IN  {n \in names :
            /\ startswith(n, prefix)
            /\ (service = <<>> \/ slice_from(n, Len(prefix)) \in Range(service))}

\* Every listed container is stopped and then removed
RECURSIVE stop_all_removed(_, _)
stop_all_removed(e, names) ==
    IF names = <<>> THEN e
    ELSE stop_all_removed(container_remove(container_stop(e, Head(names)), Head(names)),
                          Tail(names))

RECURSIVE stop_all(_, _)
stop_all(e, names) ==
    IF names = <<>> THEN e
    ELSE stop_all(container_stop(e, Head(names)), Tail(names))

down(project, service) ==
    /\ proc.pc = "idle"
    /\ LET e1 == containers_list(get_docker_client(Engine))
       IN  Done(stop_all(e1, listing(matching(DOMAIN containers, project, service))),
                [op |-> "down", project |-> project, service |-> service])
    /\ UNCHANGED proc

RECURSIVE remove_containers(_, _)
remove_containers(e, names) ==
    IF names = <<>> THEN e
    ELSE remove_containers(
             container_remove(container_stop(e, Head(names)), Head(names)),
             Tail(names))

RECURSIVE remove_volumes(_, _)
remove_volumes(e, names) ==
    IF names = <<>> THEN e
    ELSE remove_volumes(volume_remove(e, Head(names)), Tail(names))

\* The network left in place
remove_network_skipped(e, project, service) == e

\* The network removed whatever the service arguments
remove_network_always(e, project, service) ==
    LET e1 == Call(e, "networks.get", project)
    IN  IF project \in e1.networks THEN network_remove(e1, project) ELSE e1

\* Lines 320-327
remove_network(e, project, service) ==
    IF service /= <<>> THEN e
    ELSE LET e1 == Call(e, "networks.get", project)
         IN  IF project \in e1.networks THEN network_remove(e1, project) ELSE e1

\* A confirmation that lets the command go on whatever the answer
aborts_never(confirmed) == FALSE

\* Lines 298-301: click.confirm(..., abort=True) ends the command on "no"
aborts(confirmed) == ~confirmed

rm(project, service, confirmed) ==
    /\ proc.pc = "idle"
    /\ LET c == [op |-> "rm", project |-> project, service |-> service,
                 confirmed |-> confirmed]
       IN  IF aborts(confirmed)
           THEN Done(Engine, c)
           ELSE LET e1 == containers_list(get_docker_client(Engine))
                    e2 == remove_containers(
                              e1, listing(matching(DOMAIN containers, project, service)))
                    e3 == remove_volumes(
                              volumes_list(e2), listing(matching(volumes, project, service)))
                IN  Done(remove_network(e3, project, service), c)
    /\ UNCHANGED proc

---------------------------------------------------------------------------
(* attach: a foreground process, from line 77 to its exit *)

Idle == [pc |-> "idle"]

\* The signals one attach process is sent while its handlers are installed
MaxSignals == 2

\* A handler that stops nothing
exit_handler_idle(e, name) == e

\* Lines 84-89
exit_handler(e, name) == container_stop(e, name)

\* Lines 77-82: the service is resolved and reconciled, or the command aborts
attach(project, fast, service) ==
    /\ proc.pc = "idle"
    /\ LET e1 == get_docker_client(Engine)
           prepared == _prepare_containers(project)
           c == [op |-> "attach", project |-> project, fast |-> fast,
                 service |-> service]
       IN  IF service \notin DOMAIN prepared
           THEN /\ Done(e1, [c EXCEPT !.op = "attach_error"])
                /\ UNCHANGED proc
           ELSE /\ Done(_start_service(e1, service, prepared, project, fast, TRUE), c)
                /\ proc' = [pc |-> "started", name |-> prepared[service].name,
                            stop_issued |-> FALSE, handlers |-> 0, signals |-> 0]

\* Line 91, 92, 93: one handler more is installed
register(from, to) ==
    /\ proc.pc = from
    /\ proc.handlers = 0
    /\ proc' = [proc EXCEPT !.pc = to]
    /\ Done(Engine, [op |-> "register", handler |-> to])

atexit_register == register("started", "atexit")
signal_SIGINT == register("atexit", "SIGINT")
signal_SIGTERM == register("SIGINT", "logs")

\* The handlers installed at each position
handles(pc, sig) ==
    CASE sig = "atexit" -> pc \in {"atexit", "SIGINT", "logs"}
      [] sig = "SIGINT" -> pc \in {"SIGINT", "logs"}
      [] sig = "SIGTERM" -> pc = "logs"

\* The process leaves: handlers registered with atexit run when the
\* interpreter exits, but not when a signal's default action kills it.
exit(how, run_atexit) ==
    LET e == IF run_atexit THEN exit_handler(Engine, proc.name) ELSE Engine
    IN  /\ Done(e, [op |-> "attach_exit", how |-> how, name |-> proc.name,
                    stop_issued |-> proc.stop_issued \/ run_atexit])
        /\ proc' = Idle

\* A signal arrives at the attach process.  With exit_handler installed for
\* it, the handler is entered (line 85), whatever the process was doing, a
\* handler entered before included; SIGINT without it raises
\* KeyboardInterrupt, which ends the interpreter; SIGTERM without it kills
\* the process.
deliver(sig) ==
    /\ proc.pc /= "idle"
    /\ IF handles(proc.pc, sig)
       THEN /\ proc.signals < MaxSignals
            /\ Done(Engine, [op |-> "signal", sig |-> sig, name |-> proc.name])
            /\ proc' = [proc EXCEPT !.signals = @ + 1, !.handlers = @ + 1]
       ELSE IF sig = "SIGINT"
            THEN exit("SIGINT", handles(proc.pc, "atexit"))
            ELSE exit("SIGTERM", FALSE)

\* Lines 86-89: the handler entered last has the container stopped and
\* returns to what it interrupted
handler_return ==
    /\ proc.pc /= "idle"
    /\ proc.handlers > 0
    /\ Done(exit_handler(Engine, proc.name), [op |-> "handler", name |-> proc.name])
    /\ proc' = [proc EXCEPT !.handlers = @ - 1, !.stop_issued = TRUE]

\* The container's main process ends by itself while its output is streamed
container_exit ==
    /\ proc.pc = "logs"
    /\ proc.name \in DOMAIN containers
    /\ containers[proc.name].running
    /\ Done([Engine EXCEPT !.containers[proc.name].running = FALSE],
            [op |-> "container_exit", name |-> proc.name])
    /\ UNCHANGED proc

\* Lines 95-96: the stream ends once the container is not running; attach
\* returns and the interpreter exits.
logs_end ==
    /\ proc.pc = "logs"
    /\ proc.handlers = 0
    /\ ~(proc.name \in DOMAIN containers /\ containers[proc.name].running)
    /\ exit("return", TRUE)

---------------------------------------------------------------------------

Start ==
    /\ containers = <<>>
    /\ volumes = {}
    /\ networks = {}
    /\ images = {}
    /\ proc = Idle
    /\ cmd = [op |-> "none"]
    /\ pre = [containers |-> <<>>, volumes |-> {}, networks |-> {}, images |-> {}]
    /\ calls = <<>>
    /\ repeated = FALSE

\* One project, every registry
Init ==
    /\ projects = {sentry}
    /\ settings \in Registries
    /\ Start

\* Two projects, the name of one a prefix of the other's, and one registry
InitProjects ==
    /\ projects = {sentry, sentry_test}
    /\ settings = <<postgres_item(FALSE, TRUE), reverse_proxy_item(FALSE, TRUE)>>
    /\ Start

Next ==
    \/ \E project \in projects, exclude \in ExcludeInputs, fast \in BOOLEAN :
           up(project, exclude, fast)
    \/ \E project \in projects, service \in ServiceArgs : down(project, service)
    \/ \E project \in projects, service \in ServiceArgs, confirmed \in BOOLEAN :
           rm(project, service, confirmed)
    \/ \E project \in projects, fast \in BOOLEAN, service \in ServiceNames :
           attach(project, fast, service)
    \/ atexit_register
    \/ signal_SIGINT
    \/ signal_SIGTERM
    \/ \E sig \in {"SIGINT", "SIGTERM"} : deliver(sig)
    \/ handler_return
    \/ container_exit
    \/ logs_end

Spec == Init /\ [][Next]_vars

SpecProjects == InitProjects /\ [][Next]_vars

\* The engine completes a stop it was asked for, and the log stream of a
\* container that is not running ends
SpecLive == Spec /\ WF_vars(handler_return) /\ WF_vars(logs_end)

\* One project, the registries that differ in their ports
InitPorts ==
    /\ projects = {sentry}
    /\ settings \in PortRegistries
    /\ Start

SpecPorts == InitPorts /\ [][Next]_vars

\* The registry is read anew by every command (lines 116 and 142): between
\* two commands the checkout, and with it the registry, may have changed.
settings_change ==
    /\ proc.pc = "idle"
    /\ settings' \in UpgradeRegistries \ {settings}
    /\ cmd' = [op |-> "settings"]
    /\ pre' = Snapshot
    /\ calls' = <<>>
    /\ repeated' = FALSE
    /\ UNCHANGED <<projects, containers, volumes, networks, images, proc>>

InitUpgrade ==
    /\ projects = {sentry}
    /\ settings \in UpgradeRegistries
    /\ Start

NextUpgrade == Next \/ settings_change

SpecUpgrade == InitUpgrade /\ [][NextUpgrade]_vars

---------------------------------------------------------------------------
(* What the claims are stated with *)

\* The name the commands give the container of a service
container_name(project, service) == project \o <<"_">> \o service

\* The positions in `calls` of the calls `op` on `name`
CallsOf(op, name) == {i \in DOMAIN calls : calls[i].op = op /\ calls[i].name = name}

Issued(op, name) == CallsOf(op, name) /= {}

Items == {settings[i] : i \in DOMAIN settings}

\* The last step is `up`, run right after an identical `up`
SecondUp == cmd.op = "up" /\ repeated

NoRecreate(name) ==
    /\ ~Issued("containers.create", name)
    /\ ~Issued("stop", name)
    /\ ~Issued("remove", name)

---------------------------------------------------------------------------
(* C1 *)

\* C1, as stated: when `up` is run and then immediately run again with the
\* same registry, project and flags, the second `up` issues no container
\* create call and no stop or remove call for any service, those with the
\* forced `pull` flag included.
C1_SecondUpRecreatesNothing ==
    SecondUp =>
        \A item \in Items : NoRecreate(container_name(cmd.project, item.name))

\* C1, amended: the second `up` issues no container create call and no stop
\* or remove call for any service that has no forced `pull`, or is marked
\* `with_devserver`, or when the two runs are in fast mode.
C1_SecondUpReuses ==
    SecondUp =>
        \A item \in Items :
            (~item.pull \/ item.with_devserver \/ cmd.fast) =>
                NoRecreate(container_name(cmd.project, item.name))

\* A second `up` that found the container of a service without forced pull
\* and started it again
C1_Witness ==
    /\ SecondUp
    /\ \E item \in Items :
          /\ ~item.pull /\ ~item.with_devserver
          /\ container_name(cmd.project, item.name) \in DOMAIN pre.containers
          /\ Issued("start", container_name(cmd.project, item.name))

---------------------------------------------------------------------------
(* C2 *)

AttachOn(item) == cmd.op \in {"attach", "attach_error"} /\ cmd.service = item.name

\* C2, as stated: for every service marked `with_devserver`, `up` never
\* issues a start call on its container, and `attach` on that service
\* always issues a start call on its container before streaming logs.
C2_DeferredAlwaysStartedByAttach ==
    \A item \in Items :
        item.with_devserver =>
            /\ cmd.op = "up" => ~Issued("start", container_name(cmd.project, item.name))
            /\ AttachOn(item) =>
                  /\ Issued("start", container_name(cmd.project, item.name))
                  /\ proc.pc = "started"

\* C2, amended: for every service marked `with_devserver`, `up` never issues
\* a start call on its container, and `attach` on that service, when the
\* service is in the resolved registry (its `only_if` predicate holds),
\* always issues a start call on its container before streaming logs.
C2_DeferredStartedByAttach ==
    \A item \in Items :
        item.with_devserver =>
            /\ cmd.op = "up" => ~Issued("start", container_name(cmd.project, item.name))
            /\ (AttachOn(item) /\ item.only_if) =>
                  /\ Issued("start", container_name(cmd.project, item.name))
                  /\ containers[container_name(cmd.project, item.name)].running
                  /\ proc.pc = "started"

\* `attach` on a `with_devserver` service with forced pull, outside fast
\* mode, whose container `up` had created and left stopped
C2_Witness ==
    \E item \in Items :
        /\ item.with_devserver /\ item.pull
        /\ cmd.op = "attach" /\ cmd.service = item.name /\ ~cmd.fast
        /\ container_name(cmd.project, item.name) \in DOMAIN pre.containers
        /\ ~pre.containers[container_name(cmd.project, item.name)].running
        /\ Issued("start", container_name(cmd.project, item.name))

---------------------------------------------------------------------------
(* C3 *)

\* The names --exclude gives, each option value cut at its commas
Excluded(name) ==
    \E i \in DOMAIN cmd.exclude : \E piece \in Range(split(cmd.exclude[i], ",")) :
        piece = name

\* The registry's port entry, as a host binding on the loopback interface
\* when it is a bare port
Bound(entry) ==
    IF entry[1] = "bare" THEN <<"pair", "127.0.0.1", entry[2]>> ELSE entry

\* C3: when `up` finishes, the network named after the project exists and,
\* for every enabled, non-excluded service that is not marked
\* `with_devserver`, the container {project}_{service} exists and is
\* running; with no container of that name beforehand, the container is
\* created with each bare port bound to 127.0.0.1 and then started.
C3_UpPostState ==
    cmd.op = "up" =>
        /\ cmd.project \in networks
        /\ \A item \in Items :
              (item.only_if /\ ~Excluded(item.name) /\ ~item.with_devserver) =>
                  LET name == container_name(cmd.project, item.name)
                  IN  /\ name \in DOMAIN containers
                      /\ containers[name].running
                      /\ name \notin DOMAIN pre.containers =>
                            /\ \E i \in CallsOf("containers.create", name) :
                                  /\ \A k \in DOMAIN item.ports :
                                        calls[i].options.ports[k] = Bound(item.ports[k])
                                  /\ \E j \in CallsOf("start", name) : i < j
                            /\ \A k \in DOMAIN item.ports :
                                  containers[name].ports[k] = Bound(item.ports[k])

\* `up` with no container of the service beforehand: it is created and runs
C3_Witness ==
    /\ cmd.op = "up"
    /\ \E item \in Items :
          /\ item.only_if /\ ~item.with_devserver /\ ~Excluded(item.name)
          /\ \E k \in DOMAIN item.ports : item.ports[k][1] = "bare"
          /\ container_name(cmd.project, item.name) \notin DOMAIN pre.containers
          /\ container_name(cmd.project, item.name) \in DOMAIN containers
          /\ containers[container_name(cmd.project, item.name)].running

---------------------------------------------------------------------------
(* C4 *)

\* The names on which the last step issued `op`
Targets(op) == {calls[i].name : i \in {j \in DOMAIN calls : calls[j].op = op}}

\* name is {project}_{s} for an s among the service arguments
NamedBy(name, project, service) ==
    \E i \in DOMAIN service : name = container_name(project, service[i])

\* C4: `down` with no service arguments issues a stop on every container
\* (running or stopped) whose name starts with {project}_; `down` with a
\* non-empty list of service names issues a stop only on containers named
\* {project}_{s} for an s in the list, and on no other container.
C4_DownStops ==
    cmd.op = "down" =>
        /\ cmd.service = <<>> =>
              \A n \in DOMAIN pre.containers :
                  startswith(n, cmd.project \o <<"_">>) => n \in Targets("stop")
        /\ cmd.service /= <<>> =>
              /\ \A n \in Targets("stop") :
                    n \in DOMAIN pre.containers /\ NamedBy(n, cmd.project, cmd.service)
              /\ \A n \in DOMAIN pre.containers :
                    NamedBy(n, cmd.project, cmd.service) => n \in Targets("stop")

\* `down postgres` stops the running postgres container while the
\* reverse_proxy container of the same project exists and is not stopped
C4_Witness ==
    /\ cmd.op = "down" /\ cmd.service = <<postgres>>
    /\ container_name(cmd.project, postgres) \in DOMAIN pre.containers
    /\ pre.containers[container_name(cmd.project, postgres)].running
    /\ ~containers[container_name(cmd.project, postgres)].running
    /\ container_name(cmd.project, reverse_proxy) \in DOMAIN pre.containers
    /\ container_name(cmd.project, reverse_proxy) \notin Targets("stop")

---------------------------------------------------------------------------
(* C5 *)

\* C5: `rm` with a declined confirmation aborts before any engine call: the
\* set of containers, their run states, the set of volumes and the project
\* network are all exactly as they were before the command.
C5_DeclinedRmUntouched ==
    (cmd.op = "rm" /\ ~cmd.confirmed) =>
        /\ calls = <<>>
        /\ containers = pre.containers
        /\ volumes = pre.volumes
        /\ networks = pre.networks

\* A declined `rm` with a running container, a volume and the network there
C5_Witness ==
    /\ cmd.op = "rm" /\ ~cmd.confirmed /\ cmd.service = <<>>
    /\ \E n \in DOMAIN containers :
          startswith(n, cmd.project \o <<"_">>) /\ containers[n].running
    /\ \E v \in volumes : startswith(v, cmd.project \o <<"_">>)
    /\ cmd.project \in networks

---------------------------------------------------------------------------
(* C6 *)

\* C6: `rm` with no service arguments and an accepted confirmation ends in
\* a state where no container and no volume whose name starts with
\* {project}_ exists and the network named after the project does not
\* exist; each container is stopped before it is removed, and a missing
\* network is not an error (the command goes through and removes nothing
\* for it).
C6_RmAll ==
    (cmd.op = "rm" /\ cmd.confirmed /\ cmd.service = <<>>) =>
        /\ \A n \in DOMAIN containers : ~startswith(n, cmd.project \o <<"_">>)
        /\ \A v \in volumes : ~startswith(v, cmd.project \o <<"_">>)
        /\ cmd.project \notin networks
        /\ \A n \in Targets("remove") :
              \A j \in CallsOf("remove", n) : \E i \in CallsOf("stop", n) : i < j
        /\ \A n \in DOMAIN pre.containers :
              startswith(n, cmd.project \o <<"_">>) => n \in Targets("remove")
        /\ cmd.project \notin pre.networks => ~Issued("network.remove", cmd.project)

\* An accepted `rm` that found a running container, a volume and the network
C6_Witness ==
    /\ cmd.op = "rm" /\ cmd.confirmed /\ cmd.service = <<>>
    /\ \E n \in DOMAIN pre.containers :
          startswith(n, cmd.project \o <<"_">>) /\ pre.containers[n].running
    /\ \E v \in pre.volumes : startswith(v, cmd.project \o <<"_">>)
    /\ cmd.project \in pre.networks

---------------------------------------------------------------------------
(* C7 *)

\* The named volumes `up` and `attach` create under a project
VolumesOf(project) ==
    {container_name(project, m) :
        m \in UNION {{k \in DOMAIN item.volumes : ~contains(k, "/")} : item \in Items}}

\* C7, project isolation: for any two distinct project names P and Q, also
\* when one is a prefix of the other, `down` and `rm` run with --project=P
\* never stop or remove a container or volume that was created under
\* project Q, and never remove Q's network.
C7_ProjectIsolation ==
    cmd.op \in {"down", "rm"} =>
        \A Q \in projects \ {cmd.project} :
            /\ \A n \in DOMAIN pre.containers :
                  pre.containers[n].network = Q =>
                      n \notin Targets("stop") \cup Targets("remove")
            /\ \A v \in VolumesOf(Q) : v \notin Targets("volume.remove")
            /\ Q \notin Targets("network.remove")

---------------------------------------------------------------------------
(* C8 *)

\* C8: `rm` with a non-empty list of service names (confirmation accepted)
\* never removes the project network, and removes only containers and
\* volumes whose name after the {project}_ prefix is in the list; every
\* other container and volume keeps its existence and run state.
C8_RmListed ==
    (cmd.op = "rm" /\ cmd.confirmed /\ cmd.service /= <<>>) =>
        /\ networks = pre.networks
        /\ Targets("network.remove") = {}
        /\ \A n \in Targets("remove") : NamedBy(n, cmd.project, cmd.service)
        /\ \A v \in Targets("volume.remove") : NamedBy(v, cmd.project, cmd.service)
        /\ DOMAIN containers \subseteq DOMAIN pre.containers
        /\ volumes \subseteq pre.volumes
        /\ \A n \in DOMAIN pre.containers :
              IF NamedBy(n, cmd.project, cmd.service)
              THEN n \notin DOMAIN containers
              ELSE n \in DOMAIN containers /\ containers[n] = pre.containers[n]
        /\ \A v \in pre.volumes :
              v \in volumes <=> ~NamedBy(v, cmd.project, cmd.service)

\* `rm postgres`, accepted, with the postgres container and volume, a
\* running reverse_proxy container and the network there beforehand
C8_Witness ==
    /\ cmd.op = "rm" /\ cmd.confirmed /\ cmd.service = <<postgres>>
    /\ container_name(cmd.project, postgres) \in DOMAIN pre.containers
    /\ container_name(cmd.project, postgres) \in pre.volumes
    /\ container_name(cmd.project, reverse_proxy) \in DOMAIN containers
    /\ containers[container_name(cmd.project, reverse_proxy)].running
    /\ cmd.project \in networks
    /\ container_name(cmd.project, postgres) \notin DOMAIN containers
    /\ container_name(cmd.project, postgres) \notin volumes

---------------------------------------------------------------------------
(* C9 *)

\* C9: once `attach` has started the service's container, the attach
\* process never exits (by normal exit, by an interrupt signal or by a
\* termination signal, delivered at any point after the start) without a
\* stop having been issued on that container first.
C9_StopBeforeExit ==
    cmd.op = "attach_exit" => cmd.stop_issued

---------------------------------------------------------------------------
(* C10 *)

StateChanging ==
    {"images.pull", "networks.create", "volumes.create", "containers.create",
     "start", "stop", "remove", "volume.remove", "network.remove"}

\* The service is in the resolved registry: known, and not filtered out
Resolved(service) == \E item \in Items : item.name = service /\ item.only_if

\* C10: `attach` with a service name that is not in the resolved registry
\* (unknown, or filtered out by its `only_if` predicate) aborts with an
\* error outcome and makes no state-changing engine call; engine state is
\* unchanged.
C10_AttachUnknownAborts ==
    (cmd.op \in {"attach", "attach_error"} /\ ~Resolved(cmd.service)) =>
        /\ cmd.op = "attach_error"
        /\ proc.pc = "idle"
        /\ \A i \in DOMAIN calls : calls[i].op \notin StateChanging
        /\ containers = pre.containers
        /\ volumes = pre.volumes
        /\ networks = pre.networks
        /\ images = pre.images

\* `attach` on a service its predicate filters out, with containers there
C10_Witness ==
    /\ cmd.op = "attach_error"
    /\ \E item \in Items : item.name = cmd.service /\ ~item.only_if
    /\ \E n \in DOMAIN containers : containers[n].running

---------------------------------------------------------------------------
(* C11 *)

\* The ports an item gives, none when it has no `ports`
Given(item) == IF "ports" \in DOMAIN item THEN item.ports ELSE <<>>

\* C11: in the resolved options of every enabled service, every port entry
\* is a (host-interface, host-port) pair: an entry given as a bare port p
\* becomes (127.0.0.1, p), and an entry already given as a pair is left
\* unchanged; a service with no ports resolves to an empty port map.
C11_PortsResolved ==
    \A project \in projects : \A item \in Items :
        item.only_if =>
            LET resolved == _prepare_containers(project)[item.name].ports
            IN  /\ DOMAIN resolved = DOMAIN Given(item)
                /\ \A k \in DOMAIN resolved :
                      /\ Len(resolved[k]) = 3 /\ resolved[k][1] = "pair"
                      /\ Given(item)[k][1] = "bare" =>
                            resolved[k] = <<"pair", "127.0.0.1", Given(item)[k][2]>>
                      /\ Given(item)[k][1] = "pair" => resolved[k] = Given(item)[k]

\* `up` has created a container from an item with a bare port and a pair,
\* and one from an item without `ports`
C11_Witness ==
    /\ cmd.op = "up"
    /\ \E a, b \in Items :
          /\ \E k, l \in DOMAIN Given(a) :
                Given(a)[k][1] = "bare" /\ Given(a)[l][1] = "pair"
          /\ "ports" \notin DOMAIN b
          /\ \E i, j \in DOMAIN calls :
                /\ calls[i].op = "containers.create"
                /\ calls[i].name = container_name(cmd.project, a.name)
                /\ \A k \in DOMAIN Given(a) : calls[i].options.ports[k][1] = "pair"
                /\ calls[j].op = "containers.create"
                /\ calls[j].name = container_name(cmd.project, b.name)
                /\ calls[j].options.ports = <<>>

---------------------------------------------------------------------------
(* C12 *)

\* The last step ran the reconciler for the item
Reconciled(item) ==
    \/ cmd.op = "up" /\ item.only_if /\ ~Excluded(item.name)
    \/ cmd.op = "attach" /\ cmd.service = item.name

\* C12: when the reconciler finds an existing container with the resolved
\* name, it reuses it (no stop, remove or create) if and only if the
\* service has no forced `pull`, or is marked `with_devserver`, or fast mode
\* is active; otherwise it issues stop, then remove, then create on that
\* name, in that order, so that a create of {project}_{service} is never
\* issued while a container of that name still exists.
C12_ReuseOrRecreate ==
    \A item \in Items :
        Reconciled(item) =>
            LET name == container_name(cmd.project, item.name)
            IN  /\ name \in DOMAIN pre.containers =>
                      IF ~item.pull \/ item.with_devserver \/ cmd.fast
                      THEN NoRecreate(name)
                      ELSE /\ Cardinality(CallsOf("stop", name)) = 1
                           /\ Cardinality(CallsOf("remove", name)) = 1
                           /\ Cardinality(CallsOf("containers.create", name)) = 1
                           /\ \E i \in CallsOf("stop", name), j \in CallsOf("remove", name),
                                 k \in CallsOf("containers.create", name) : i < j /\ j < k
                /\ \A k \in CallsOf("containers.create", name) :
                      \/ name \notin DOMAIN pre.containers
                      \/ \E j \in CallsOf("remove", name) : j < k

\* The reconciler found the running container of a service with forced
\* pull, outside fast mode, and made it anew
C12_Witness ==
    \E item \in Items :
        /\ Reconciled(item)
        /\ item.pull /\ ~item.with_devserver /\ ~cmd.fast
        /\ container_name(cmd.project, item.name) \in DOMAIN pre.containers
        /\ pre.containers[container_name(cmd.project, item.name)].running
        /\ Issued("remove", container_name(cmd.project, item.name))
        /\ Issued("containers.create", container_name(cmd.project, item.name))

---------------------------------------------------------------------------
(* C13 *)

\* The container is as the item's resolved options for the project say
Matches(name, item, project) ==
    /\ containers[name].image = item.image
    /\ DOMAIN containers[name].ports = DOMAIN Given(item)
    /\ \A k \in DOMAIN Given(item) : containers[name].ports[k] = Bound(Given(item)[k])
    /\ containers[name].network = project
    /\ DOMAIN containers[name].volumes =
          {IF contains(m, "/") THEN m ELSE container_name(project, m) :
              m \in DOMAIN item.volumes}
    /\ \A m \in DOMAIN item.volumes :
          containers[name].volumes[IF contains(m, "/") THEN m
                                   ELSE container_name(project, m)] = item.volumes[m]

---------------------------------------------------------------------------
(* C14 *)

---------------------------------------------------------------------------
(* C15 *)

ImageCalls == {"images.get", "images.pull"}

\* The last step made no engine call about the item: none on its image, on
\* its container or on a volume of its mounts
Untouched(item, project) ==
    \A i \in DOMAIN calls :
        IF calls[i].op \in ImageCalls
        THEN calls[i].name /= item.image
        ELSE /\ calls[i].name /= container_name(project, item.name)
             /\ \A m \in DOMAIN item.volumes :
                   calls[i].name /= container_name(project, m)

\* C15: `up` makes no engine call (pull, volume create, container create,
\* start, stop, remove) for any service named in --exclude (including names
\* given comma-separated in one option value) or whose `only_if` predicate
\* returns false; their existing containers keep their existence and run
\* state.
C15_UpSkips ==
    cmd.op = "up" =>
        \A item \in Items :
            (Excluded(item.name) \/ ~item.only_if) =>
                LET name == container_name(cmd.project, item.name)
                IN  /\ Untouched(item, cmd.project)
                    /\ name \in DOMAIN containers <=> name \in DOMAIN pre.containers
                    /\ name \in DOMAIN containers => containers[name] = pre.containers[name]

\* `up` with the two services excluded in one comma-separated value, the
\* container of one of them running
C15_Witness ==
    /\ cmd.op = "up"
    /\ \E i \in DOMAIN cmd.exclude : contains(cmd.exclude[i], ",")
    /\ \E item \in Items :
          /\ item.only_if /\ Excluded(item.name)
          /\ container_name(cmd.project, item.name) \in DOMAIN pre.containers
          /\ containers[container_name(cmd.project, item.name)].running

---------------------------------------------------------------------------
(* C16 *)

\* Some call `first` on `a` comes before every call `then` on `b`
Before(first, a, then, b) ==
    /\ Issued(first, a)
    /\ \A j \in CallsOf(then, b) : \E i \in CallsOf(first, a) : i < j

\* C16: for every volume mount of a service whose mount name contains no
\* "/", by the time the reconciler looks up or creates the container a
\* volume named {project}_{mount} exists in the engine and the mount key in
\* the options passed to create is {project}_{mount} with the same
\* container path; mounts whose name contains "/" are passed unchanged and
\* cause no volume creation; an already existing volume is fetched, not
\* created again.
C16_NamedVolumes ==
    \A item \in Items :
        Reconciled(item) =>
            LET name == container_name(cmd.project, item.name)
            IN  \A m \in DOMAIN item.volumes :
                    LET v == container_name(cmd.project, m)
                    IN  IF ~contains(m, "/")
                        THEN /\ v \in volumes
                             /\ Before("volumes.get", v, "containers.get", name)
                             /\ Before("volumes.get", v, "containers.create", name)
                             /\ IF v \in pre.volumes
                                THEN ~Issued("volumes.create", v)
                                ELSE /\ Before("volumes.create", v, "containers.get", name)
                                     /\ Cardinality(CallsOf("volumes.create", v)) = 1
                             /\ \A k \in CallsOf("containers.create", name) :
                                   /\ v \in DOMAIN calls[k].options.volumes
                                   /\ calls[k].options.volumes[v] = item.volumes[m]
                                   /\ m \notin DOMAIN calls[k].options.volumes
                        ELSE /\ ~Issued("volumes.create", m)
                             /\ ~Issued("volumes.create", v)
                             /\ v \notin volumes /\ m \notin volumes
                             /\ \A k \in CallsOf("containers.create", name) :
                                   /\ m \in DOMAIN calls[k].options.volumes
                                   /\ calls[k].options.volumes[m] = item.volumes[m]

\* The reconciler fetched the volume that was there and created the
\* container with the namespaced mount and the path mount
C16_Witness ==
    \E item \in Items :
        /\ Reconciled(item)
        /\ \E m, d \in DOMAIN item.volumes :
              /\ ~contains(m, "/") /\ contains(d, "/")
              /\ container_name(cmd.project, m) \in pre.volumes
              /\ \E k \in CallsOf("containers.create",
                                  container_name(cmd.project, item.name)) :
                    DOMAIN calls[k].options.volumes = {container_name(cmd.project, m), d}

---------------------------------------------------------------------------
(* C17 *)

\* attach is streaming logs and a signal's handler is at work
Interrupted == proc.pc = "logs" /\ proc.handlers > 0

\* The attach process has returned and its container is not running
Terminated ==
    /\ cmd.op = "attach_exit"
    /\ proc.pc = "idle"
    /\ ~(cmd.name \in DOMAIN containers /\ containers[cmd.name].running)

\* C17: after an interrupt or termination signal is delivered while
\* `attach` is streaming logs, the attach process eventually terminates
\* with the container stopped, also when a second interrupt arrives while
\* the stop is in progress (the engine completing the stop and then ending
\* the log stream).
C17_AttachShutsDown == Interrupted ~> Terminated

\* A second signal has arrived while the handler of the first is at work
C17_Witness ==
    /\ proc.pc = "logs"
    /\ proc.handlers = 2
    /\ proc.name \in DOMAIN containers
    /\ containers[proc.name].running

---------------------------------------------------------------------------
(* C18 *)

\* The engine calls of the last step that create a container
Creates == {i \in DOMAIN calls : calls[i].op = "containers.create"}

\* C18: whenever `up` or `attach` issues a container create, the network
\* named after the project, which the container is configured to join,
\* exists in the engine, whatever the order of the commands before.  Neither
\* command removes a network, so a network missing after the step was
\* missing at the create.
C18_NetworkBeforeCreate ==
    cmd.op \in {"up", "attach"} =>
        \A i \in Creates :
            /\ calls[i].options.network = cmd.project
            /\ calls[i].options.network \in networks

---------------------------------------------------------------------------
(* C19 *)

\* Container name is as it was before the last step, or differs from that
\* in being stopped
SameOrStopped(name) ==
    \/ containers[name] = pre.containers[name]
    \/ /\ containers[name] = [pre.containers[name] EXCEPT !.running = FALSE]
       /\ startswith(name, cmd.project \o <<"_">>)
       /\ cmd.service /= <<>> => NamedBy(name, cmd.project, cmd.service)

\* C19: after any `down`, with or without service arguments, the existing
\* containers, the volumes and the networks are the same sets as before;
\* only the run state of matching containers has changed, to stopped.
C19_DownOnlyStops ==
    cmd.op = "down" =>
        /\ DOMAIN containers = DOMAIN pre.containers
        /\ volumes = pre.volumes
        /\ networks = pre.networks
        /\ images = pre.images
        /\ \A name \in DOMAIN containers : SameOrStopped(name)

\* A `down` has stopped a running container of a project that has volumes
\* and a network, and has left another container running
C19_Witness ==
    /\ cmd.op = "down"
    /\ \E name \in DOMAIN containers :
          pre.containers[name].running /\ ~containers[name].running
    /\ \E name \in DOMAIN containers : containers[name].running
    /\ volumes /= {}
    /\ networks /= {}

=============================================================================
